---- MODULE Spec2Model ----
(***************************************************************************)
(* A model of the two dataset tasks of data-toolbox:                       *)
(*   toolbox/tasks/aidungeon_text_adventure.py  (adventure segmenter)      *)
(*   toolbox/tasks/rp_forums_writing.py         (forum-thread normalizer)  *)
(*                                                                         *)
(* Text is modelled character by character: a Python str is a sequence of  *)
(* one-character strings.  Three characters that are awkward to write are  *)
(* spelled out: "a^" is U+00E2, "u009d" is U+009D and "hellip" is U+2026.  *)
(***************************************************************************)
EXTENDS Integers, Sequences, FiniteSets, TLC

VARIABLES
    \* AiDungeonTextAdventureTask.__iter__
    dataset, idx, current_story, yielded, adv_pc,
    \* _convert_story_to_turns
    story, line_no, turns, current_turn, current_word_count, flush_lines, conv_pc,
    \* _remove_html_tag
    html_input, html_tag, cleaned_message, cleaning_passes, removals, html_pc,
    \* _split_message
    original_message, target_word_count, piece_no, reconstructed_messages, split_pc,
    \* RpForumsWritingTask.__iter__
    thread_name, authors, username_order, forum_turns, msg_no, long_message,
    chunks, markdown, episode, forum_pc

advVars   == <<dataset, idx, current_story, yielded, adv_pc>>
convVars  == <<story, line_no, turns, current_turn, current_word_count, flush_lines, conv_pc>>
htmlVars  == <<html_input, html_tag, cleaned_message, cleaning_passes, removals, html_pc>>
splitVars == <<original_message, target_word_count, piece_no, reconstructed_messages, split_pc>>
forumVars == <<thread_name, authors, username_order, forum_turns, msg_no, long_message,
               chunks, markdown, episode, forum_pc>>
vars == <<advVars, convVars, htmlVars, splitVars, forumVars>>

(***************************************************************************)
(* Character classes of Python's str methods and of the re module.         *)
(***************************************************************************)
LowerCase == {"a","b","c","d","e","f","g","h","i","j","k","l","m",
              "n","o","p","q","r","s","t","u","v","w","x","y","z"}
UpperCase == {"A","B","C","D","E","F","G","H","I","J","K","L","M",
              "N","O","P","Q","R","S","T","U","V","W","X","Y","Z"}
Digits == {"0","1","2","3","4","5","6","7","8","9"}
\* \w of re (str patterns): letters, digits and the underscore
WordChars == LowerCase \cup UpperCase \cup Digits \cup {"_", "a^"}
\* \s of re, and the whitespace of str.split() and str.strip()
WhiteSpace == {" ", "\n", "\t", "\r"}

IsWord(c) == c \in WordChars
IsSpace(c) == c \in WhiteSpace

Least(S) == CHOOSE i \in S : \A j \in S : i <= j
Greatest(S) == -Least({-i : i \in S})

\* the n-th smallest element of a set of integers (n in 1..Cardinality(S))
Nth(S, n) == CHOOSE i \in S : Cardinality({j \in S : j <= i}) = n

(***************************************************************************)
(* str methods.  Positions are 1-based; find returns 0 where Python        *)
(* returns -1.                                                             *)
(***************************************************************************)
OccursAt(s, p, i) ==
    /\ i >= 1
    /\ i + Len(p) - 1 <= Len(s)
    /\ \A k \in 1..Len(p) : s[i + k - 1] = p[k]

\* s.find(p, start): start is a 1-based position here
find(s, p, start) ==
    LET hits == {i \in start..(Len(s) - Len(p) + 1) : OccursAt(s, p, i)}
    IN  IF hits = {} THEN 0 ELSE Least(hits)

\* p in s
contains(s, p) == find(s, p, 1) # 0

startswith(s, p) == OccursAt(s, p, 1)

\* s.strip(), s.rstrip()
strip(s) ==
    LET keep == {i \in 1..Len(s) : ~IsSpace(s[i])}
    IN  IF keep = {} THEN <<>> ELSE SubSeq(s, Least(keep), Greatest(keep))

rstrip(s) ==
    LET keep == {i \in 1..Len(s) : ~IsSpace(s[i])}
    IN  IF keep = {} THEN <<>> ELSE SubSeq(s, 1, Greatest(keep))

\* len(s.split()): the number of maximal runs of non-whitespace
word_count(s) ==
    Cardinality({i \in 1..Len(s) :
                    ~IsSpace(s[i]) /\ (i = 1 \/ IsSpace(s[i - 1]))})

\* s.splitlines(): the line breaks are dropped, and a final line break opens no
\* further line.  ("\n" is the only line break of the texts modelled.)
splitlines(s) ==
    LET nl == {i \in 1..Len(s) : s[i] = "\n"}
        n == Cardinality(nl)
        open(k) == IF k = 1 THEN 1 ELSE Nth(nl, k - 1) + 1
        close(k) == IF k <= n THEN Nth(nl, k) - 1 ELSE Len(s)
        count == IF Len(s) > 0 /\ s[Len(s)] # "\n" THEN n + 1 ELSE n
    IN  [k \in 1..count |-> SubSeq(s, open(k), close(k))]

\* s.replace(old, new): the occurrences of old, left to right, not overlapping
RECURSIVE replace_from(_, _, _, _)
replace_from(s, old, new, start) ==
    LET i == find(s, old, start)
    IN  IF i = 0 THEN SubSeq(s, start, Len(s))
        ELSE SubSeq(s, start, i - 1) \o new \o replace_from(s, old, new, i + Len(old))

replace(s, old, new) == replace_from(s, old, new, 1)

\* s.split(delimiter): the pieces between the occurrences of the delimiter
RECURSIVE split_from(_, _, _)
split_from(s, delimiter, start) ==
    LET i == find(s, delimiter, start)
    IN  IF i = 0 THEN <<SubSeq(s, start, Len(s))>>
        ELSE <<SubSeq(s, start, i - 1)>> \o split_from(s, delimiter, i + Len(delimiter))

split(s, delimiter) == split_from(s, delimiter, 1)

\* "\n".join(lines) and the like
RECURSIVE join(_, _)
join(sep, parts) ==
    IF parts = <<>> THEN <<>>
    ELSE IF Len(parts) = 1 THEN parts[1]
    ELSE parts[1] \o sep \o join(sep, Tail(parts))

\* str(n) for the small numbers of an identifier or a placeholder
str_of(n) ==
    LET digit == <<"0","1","2","3","4","5","6","7","8","9">>
    IN  IF n < 10 THEN <<digit[n + 1]>>
        ELSE <<digit[(n \div 10) + 1], digit[(n % 10) + 1]>>

\* s.lower()
lower(s) ==
    LET upper == <<"A","B","C","D","E","F","G","H","I","J","K","L","M",
                   "N","O","P","Q","R","S","T","U","V","W","X","Y","Z">>
        small == <<"a","b","c","d","e","f","g","h","i","j","k","l","m",
                   "n","o","p","q","r","s","t","u","v","w","x","y","z">>
        low(c) == IF c \in UpperCase
                  THEN small[CHOOSE k \in 1..26 : upper[k] = c] ELSE c
    IN  [i \in 1..Len(s) |-> low(s[i])]

(***************************************************************************)
(* String constants of the two tasks.                                      *)
(***************************************************************************)
START_OF_TEXT == <<"<","|","s","t","a","r","t","o","f","t","e","x","t","|",">">>
END_OF_TEXT == <<"<","|","e","n","d","o","f","t","e","x","t","|",">">>
USER_MARKER == <<">"," ">>
HTTP == <<"h","t","t","p",":","/","/">>
HTTPS == <<"h","t","t","p","s",":","/","/">>
BR_BR == <<"<","b","r","/",">","<","b","r","/",">">>
NL == <<"\n">>
EMPTY == <<>>


(***************************************************************************)
(* The re module: re.sub with the patterns the tasks use.  A pattern is a  *)
(* record naming the regular expression; match_len is the length of its    *)
(* match at position i, or 0.  No pattern here matches the empty string.   *)
(***************************************************************************)
\* \b at the position between s[j-1] and s[j]
word_boundary(s, j) ==
    (j > 1 /\ IsWord(s[j - 1])) # (j <= Len(s) /\ IsWord(s[j]))

\* \n{n,} : a run of at least n line breaks, taken whole
match_newlines(s, i, n) ==
    IF s[i] # "\n" THEN 0
    ELSE LET stop == Least({j \in i..Len(s) : s[j] # "\n"} \cup {Len(s) + 1})
         IN  IF stop - i >= n THEN stop - i ELSE 0

\* https?:\/\/.+?(\s|$) : the prefix, then as few characters (none a line
\* break, at least one) as reach a whitespace character, which is taken too,
\* or the end of the text
match_url(s, i) ==
    LET plen == IF OccursAt(s, HTTPS, i) THEN Len(HTTPS)
                ELSE IF OccursAt(s, HTTP, i) THEN Len(HTTP) ELSE 0
        p == i + plen
        stop == Least({j \in p..Len(s) : s[j] = "\n"} \cup {Len(s) + 1})
        ends == {e \in (p + 1)..stop : e = Len(s) + 1 \/ IsSpace(s[e])}
    IN  IF plen = 0 \/ ends = {} THEN 0
        ELSE IF Least(ends) = Len(s) + 1 THEN Len(s) + 1 - i
        ELSE Least(ends) + 1 - i

\* \b(\.\.\.?)\b : two or three dots with a word character on either side
match_dots(s, i) ==
    LET dot(j) == j <= Len(s) /\ s[j] = "."
        word(j) == j >= 1 /\ j <= Len(s) /\ IsWord(s[j])
    IN  IF ~(dot(i) /\ dot(i + 1) /\ word(i - 1)) THEN 0
        ELSE IF dot(i + 2) /\ word(i + 3) THEN 3
        ELSE IF word(i + 2) THEN 2
        ELSE 0

\* (\S)(hellip)(\S)
match_hellip(s, i) ==
    IF /\ i + 2 <= Len(s)
       /\ ~IsSpace(s[i]) /\ s[i + 1] = "hellip" /\ ~IsSpace(s[i + 2])
    THEN 3 ELSE 0

\* \b<name>\b with the name escaped: the name between two word boundaries
match_word(s, i, name) ==
    IF /\ OccursAt(s, name, i)
       /\ word_boundary(s, i)
       /\ word_boundary(s, i + Len(name))
    THEN Len(name) ELSE 0

match_len(pattern, s, i) ==
    CASE pattern.re = "newlines" -> match_newlines(s, i, pattern.n)
      [] pattern.re = "url"      -> match_url(s, i)
      [] pattern.re = "dots"     -> match_dots(s, i)
      [] pattern.re = "hellip"   -> match_hellip(s, i)
      [] pattern.re = "word"     -> match_word(s, i, pattern.name)

\* the replacement of one match: a template with groups for hellip
\* ("\\1\\2 \\3"), a plain string for the others
expand(pattern, repl, matched) ==
    IF pattern.re = "hellip"
    THEN <<matched[1], matched[2], " ", matched[3]>>
    ELSE repl

\* re.sub(pattern, repl, s): the leftmost matches, not overlapping
RECURSIVE re_sub_from(_, _, _, _)
re_sub_from(pattern, repl, s, start) ==
    LET hits == {i \in start..Len(s) : match_len(pattern, s, i) > 0}
    IN  IF hits = {} THEN SubSeq(s, start, Len(s))
        ELSE LET i == Least(hits)
                 n == match_len(pattern, s, i)
             IN  SubSeq(s, start, i - 1)
                 \o expand(pattern, repl, SubSeq(s, i, i + n - 1))
                 \o re_sub_from(pattern, repl, s, i + n)

re_sub(pattern, repl, s) == re_sub_from(pattern, repl, s, 1)


(***************************************************************************)
(* toolbox/tasks/aidungeon_text_adventure.py                               *)
(***************************************************************************)
_MIN_WORD_COUNT_PER_MODEL_TURN == 300

\* two of the expansions generate_prompts gives for the template
_SYSTEM_PROMPTS == {
    <<"T","h","i","s"," ","i","s"," ","a"," ","t","e","x","t"," ","a","d","v","e","n","t","u","r","e","."," ","I","n"," ","t","h","i","s"," ","g","a","m","e",","," ","t","h","e"," ","u","s","e","r"," ","w","i","l","l"," ","i","s","s","u","e"," ","c","o","m","m","a","n","d","s"," ","i","n"," ","f","i","r","s","t"," ","p","e","r","s","o","n",","," ","a","n","d"," ","y","o","u"," ","a","r","e"," ","t","o"," ","p","r","o","c","e","e","d"," ","a","c","c","o","r","d","i","n","g","l","y",".">>,
    <<"B","e","g","i","n"," ","a"," ","t","e","x","t"," ","a","d","v","e","n","t","u","r","e"," ","g","a","m","e","."," ","H","e","r","e",","," ","I"," ","w","i","l","l"," ","i","s","s","u","e"," ","c","o","m","m","a","n","d","s"," ","i","n"," ","f","i","r","s","t"," ","p","e","r","s","o","n",","," ","a","n","d"," ","y","o","u"," ","a","r","e"," ","t","o"," ","a","d","v","a","n","c","e"," ","t","h","e"," ","s","t","o","r","y"," ","a","c","c","o","r","d","i","n","g","l","y",".">> }

Turn(utterance, kind) == [utterance |-> utterance, kind |-> kind]

Episode(episode_turns, identifier) ==
    [turns |-> episode_turns, identifier |-> identifier]

\* if line.startswith("> ")
is_user_input(line) == startswith(line, USER_MARKER)

\* utterance = line.replace("> ", "").strip()
user_utterance(line) == strip(replace(line, USER_MARKER, EMPTY))

\* if current_word_count >= _MIN_WORD_COUNT_PER_MODEL_TURN
reaches_threshold_strictly(count) == count > _MIN_WORD_COUNT_PER_MODEL_TURN
reaches_threshold(count) == count >= _MIN_WORD_COUNT_PER_MODEL_TURN

\* line.replace("<|startoftext|>", "").replace("<|endoftext|>", "")
remove_useless_tokens(line) ==
    replace(replace(line, START_OF_TEXT, EMPTY), END_OF_TEXT, EMPTY)

\* One pass of the loop of _convert_story_to_turns over a line.  st holds the
\* function's locals: turns, current_turn, current_word_count.
convert_line(st, line) ==
    IF is_user_input(line)
    THEN LET utterance == user_utterance(line)
         IN  IF Len(utterance) = 0 THEN st
             ELSE [st EXCEPT !.turns = Append(@, Turn(utterance, "USER"))]
    ELSE LET cleaned == remove_useless_tokens(line)
             text == st.current_turn \o strip(cleaned) \o NL
             count == st.current_word_count + word_count(cleaned)
         IN  IF reaches_threshold(count)
             THEN [turns |-> Append(st.turns,
                       Turn(re_sub([re |-> "newlines", n |-> 3], <<"\n","\n">>, text),
                            "MODEL")),
                   current_turn |-> EMPTY,
                   current_word_count |-> 0]
             ELSE [st EXCEPT !.current_turn = text, !.current_word_count = count]

RECURSIVE convert_lines(_, _)
convert_lines(st, lines) ==
    IF lines = <<>> THEN st ELSE convert_lines(convert_line(st, Head(lines)), Tail(lines))

_convert_story_to_turns(text) ==
    convert_lines([turns |-> <<>>, current_turn |-> EMPTY, current_word_count |-> 0],
                  splitlines(text)).turns

\* turns.insert(0, Turn(utterance=sp, kind=TurnKind.SYSTEM))
system_turn_last(story_turns, sp) == Append(story_turns, Turn(sp, "SYSTEM"))
insert_system_turn(story_turns, sp) == <<Turn(sp, "SYSTEM")>> \o story_turns

\* f"ai-dungeon-{idx}"
adventure_identifier(n) == <<"a","i","-","d","u","n","g","e","o","n","-">> \o str_of(n)


(***************************************************************************)
(* Bounds and inputs of the adventure segmenter.                           *)
(***************************************************************************)
MaxStreamLines == 4
MaxStoryLines == 3

\* n one-letter words separated by single spaces
Words(n) == [i \in 1..(2 * n - 1) |-> IF i % 2 = 1 THEN "w" ELSE " "]

\* every sequence over S of length at most n
SeqsUpTo(S, n) == UNION {[1..k -> S] : k \in 0..n}

SENTINEL_LINE == START_OF_TEXT \o <<"Y","o","u"," ","w","a","k","e",".","\n">>
GO_LINE == <<">"," ","g","o","\n">>
GO_NORTH_LINE == <<">"," ","g","o"," ",">"," ","n","o","r","t","h","\n">>
EMPTY_INPUT_LINE == <<">"," ","\n">>
SHORT_LINE == <<"I","t"," ","i","s"," ","d","a","r","k",".","\n">>
ONE_WORD_LINE == <<"w","\n">>

\* the lines the line source yields, each with its line break
AdvLines == {SENTINEL_LINE, GO_LINE, SHORT_LINE,
             Words(_MIN_WORD_COUNT_PER_MODEL_TURN) \o NL}

\* the lines of the stories handed to _convert_story_to_turns
ConvLines == {GO_LINE, GO_NORTH_LINE, EMPTY_INPUT_LINE, ONE_WORD_LINE,
              SENTINEL_LINE,
              Words(_MIN_WORD_COUNT_PER_MODEL_TURN - 1) \o NL}

(***************************************************************************)
(* Each specification below runs one component; the others stand idle.     *)
(***************************************************************************)
IdleAdv ==
    /\ dataset = <<>> /\ idx = 0 /\ current_story = EMPTY
    /\ yielded = <<>> /\ adv_pc = "idle"

IdleConv ==
    /\ story = EMPTY /\ line_no = 0 /\ turns = <<>> /\ current_turn = EMPTY
    /\ current_word_count = 0 /\ flush_lines = <<>> /\ conv_pc = "idle"

IdleHtml ==
    /\ html_input = EMPTY /\ html_tag = EMPTY /\ cleaned_message = EMPTY
    /\ cleaning_passes = 0 /\ removals = 0 /\ html_pc = "idle"

IdleSplit ==
    /\ original_message = EMPTY /\ target_word_count = 0 /\ piece_no = 0
    /\ reconstructed_messages = <<>> /\ split_pc = "idle"

IdleForum ==
    /\ thread_name = EMPTY /\ authors = <<>> /\ username_order = <<>>
    /\ forum_turns = <<>> /\ msg_no = 0 /\ long_message = EMPTY
    /\ chunks = <<>> /\ markdown = EMPTY /\ episode = <<>> /\ forum_pc = "idle"

(***************************************************************************)
(* AiDungeonTextAdventureTask.__iter__: the generator reads the line       *)
(* source one line at a time.  dataset records the lines read so far.      *)
(***************************************************************************)
InitAdv ==
    /\ dataset = <<>>
    /\ idx = 0
    /\ current_story = EMPTY
    /\ yielded = <<>>
    /\ adv_pc = "iterating"
    /\ IdleConv /\ IdleHtml /\ IdleSplit /\ IdleForum

\* if line.startswith("<|startoftext|>"): the story read so far is converted and
\* yielded, and the line opens the next story
AdvNewStory(line) ==
    /\ adv_pc = "iterating"
    /\ Len(dataset) < MaxStreamLines
    /\ startswith(line, START_OF_TEXT)
    /\ \E sp \in _SYSTEM_PROMPTS :
          yielded' = Append(yielded,
              Episode(insert_system_turn(_convert_story_to_turns(current_story), sp),
                      adventure_identifier(idx)))
    /\ current_story' = line
    /\ idx' = idx + 1
    /\ dataset' = Append(dataset, line)
    /\ UNCHANGED <<adv_pc, convVars, htmlVars, splitVars, forumVars>>

\* else: current_story += line
AdvContinuation(line) ==
    /\ adv_pc = "iterating"
    /\ Len(dataset) < MaxStreamLines
    /\ ~startswith(line, START_OF_TEXT)
    /\ current_story' = current_story \o line
    /\ dataset' = Append(dataset, line)
    /\ UNCHANGED <<idx, yielded, adv_pc, convVars, htmlVars, splitVars, forumVars>>

\* the for loop ends with the line source, and the generator returns
AdvExhausted ==
    /\ adv_pc = "iterating"
    /\ adv_pc' = "exhausted"
    /\ UNCHANGED <<dataset, idx, current_story, yielded,
                   convVars, htmlVars, splitVars, forumVars>>

NextAdv ==
    \/ \E line \in AdvLines : AdvNewStory(line)
    \/ \E line \in AdvLines : AdvContinuation(line)
    \/ AdvExhausted

SpecAdv == InitAdv /\ [][NextAdv]_vars

(***************************************************************************)
(* _convert_story_to_turns, one pass of its loop at a time.  flush_lines   *)
(* records the numbers of the lines at which a MODEL turn was appended.    *)
(***************************************************************************)
InitConvert ==
    /\ story \in {join(EMPTY, ls) : ls \in SeqsUpTo(ConvLines, MaxStoryLines)}
    /\ line_no = 0
    /\ turns = <<>>
    /\ current_turn = EMPTY
    /\ current_word_count = 0
    /\ flush_lines = <<>>
    /\ conv_pc = "loop"
    /\ IdleAdv /\ IdleHtml /\ IdleSplit /\ IdleForum

ConvertLine ==
    /\ conv_pc = "loop"
    /\ line_no < Len(splitlines(story))
    /\ LET st == convert_line([turns |-> turns, current_turn |-> current_turn,
                               current_word_count |-> current_word_count],
                              splitlines(story)[line_no + 1])
       IN  /\ turns' = st.turns
           /\ current_turn' = st.current_turn
           /\ current_word_count' = st.current_word_count
           /\ flush_lines' =
                 IF Len(st.turns) > Len(turns) /\ st.turns[Len(st.turns)].kind = "MODEL"
                 THEN Append(flush_lines, line_no + 1) ELSE flush_lines
    /\ line_no' = line_no + 1
    /\ UNCHANGED <<story, conv_pc, advVars, htmlVars, splitVars, forumVars>>

\* return turns: whatever current_turn holds is dropped
ConvertReturn ==
    /\ conv_pc = "loop"
    /\ line_no = Len(splitlines(story))
    /\ conv_pc' = "returned"
    /\ UNCHANGED <<story, line_no, turns, current_turn, current_word_count,
                   flush_lines, advVars, htmlVars, splitVars, forumVars>>

NextConvert == ConvertLine \/ ConvertReturn

SpecConvert == InitConvert /\ [][NextConvert]_vars


(***************************************************************************)
(* Properties of the adventure segmenter.                                  *)
(***************************************************************************)
Kinds(ts) == [i \in 1..Len(ts) |-> ts[i].kind]

\* the stories of the lines read: a story runs from a sentinel line to the line
\* before the next sentinel line
StoryStarts == {i \in 1..Len(dataset) : startswith(dataset[i], START_OF_TEXT)}
StoryCount == Cardinality(StoryStarts)
StoryText(k) ==
    LET first == Nth(StoryStarts, k)
        last == IF k < StoryCount THEN Nth(StoryStarts, k + 1) - 1 ELSE Len(dataset)
    IN  join(EMPTY, SubSeq(dataset, first, last))
EachStoryStartsWithSentinel ==
    dataset = <<>> \/ startswith(dataset[1], START_OF_TEXT)

\* C1: once a line stream in which each story starts with a sentinel line is
\* exhausted, exactly one Episode has been yielded per story, and the turns of
\* every story, the last one included, are the turns (after the SYSTEM turn) of
\* an episode that was yielded.
C1_OneEpisodePerStory ==
    (adv_pc = "exhausted" /\ EachStoryStartsWithSentinel) =>
        /\ Len(yielded) = StoryCount
        /\ \A k \in 1..StoryCount :
              \E e \in 1..Len(yielded) :
                 Tail(yielded[e].turns) = _convert_story_to_turns(StoryText(k))

StoryLines == splitlines(story)

\* the words line k adds to the running word count
NarrationWords(k) ==
    IF is_user_input(StoryLines[k]) THEN 0
    ELSE word_count(remove_useless_tokens(StoryLines[k]))

RECURSIVE WordsBetween(_, _)
WordsBetween(first, last) ==
    IF first > last THEN 0 ELSE NarrationWords(last) + WordsBetween(first, last - 1)

BOUNDARY_STORY ==
    GO_LINE \o Words(_MIN_WORD_COUNT_PER_MODEL_TURN - 1) \o NL \o ONE_WORD_LINE

\* C7: a MODEL turn is appended exactly at each narration line where the running
\* word count, counted from the line after the previous flush, reaches 300 or
\* more.  So the words since a flush stay below 300 until the line of the next
\* flush, the words read since the last flush are below 300 and are what
\* current_word_count holds, and there is one MODEL turn per flush.  A story of
\* one "> " line, 299 words and 1 more word gives one USER and one MODEL turn.
C7_ModelTurnExactlyAtThreshold ==
    LET prev(k) == IF k = 1 THEN 0 ELSE flush_lines[k - 1]
        last == IF flush_lines = <<>> THEN 0 ELSE flush_lines[Len(flush_lines)]
    IN  /\ \A k \in 1..Len(flush_lines) :
              /\ ~is_user_input(StoryLines[flush_lines[k]])
              /\ WordsBetween(prev(k) + 1, flush_lines[k]) >= 300
              /\ WordsBetween(prev(k) + 1, flush_lines[k] - 1) < 300
        /\ WordsBetween(last + 1, line_no) < 300
        /\ current_word_count = WordsBetween(last + 1, line_no)
        /\ Cardinality({i \in 1..Len(turns) : turns[i].kind = "MODEL"})
              = Len(flush_lines)
        /\ (conv_pc = "returned" /\ story = BOUNDARY_STORY)
              => Kinds(turns) = <<"USER", "MODEL">>

\* the boundary story was converted, its MODEL turn flushed at its third line
C7_Witness ==
    /\ conv_pc = "returned"
    /\ story = BOUNDARY_STORY
    /\ flush_lines = <<3>>
    /\ Kinds(turns) = <<"USER", "MODEL">>

\* what the claim says of a line that begins with "> ": the line with only its
\* leading marker removed, trimmed
VerbatimInput(line) == strip(SubSeq(line, Len(USER_MARKER) + 1, Len(line)))

RECURSIVE VerbatimInputs(_)
VerbatimInputs(lines) ==
    IF lines = <<>> THEN <<>>
    ELSE IF is_user_input(Head(lines)) /\ VerbatimInput(Head(lines)) # EMPTY
         THEN <<VerbatimInput(Head(lines))>> \o VerbatimInputs(Tail(lines))
         ELSE VerbatimInputs(Tail(lines))

IsUserTurn(turn) == turn.kind = "USER"

\* C8: the USER turns of a converted story are its lines that begin with "> ",
\* each with only the leading marker removed and trimmed (a later "> " in the
\* line is kept), those that come out empty left out.
C8_UserTurnsVerbatim ==
    conv_pc = "returned" =>
        LET users == SelectSeq(turns, IsUserTurn)
        IN  [i \in 1..Len(users) |-> users[i].utterance] = VerbatimInputs(StoryLines)


(***************************************************************************)
(* toolbox/tasks/rp_forums_writing.py: _remove_html_tag                    *)
(***************************************************************************)
MAX_CLEANING_PASSES == 4

BLOCKQUOTE == <<"b","l","o","c","k","q","u","o","t","e">>
SCRIPT == <<"s","c","r","i","p","t">>
DIV == <<"d","i","v">>
BB_IMAGE_WRAPPER == <<"b","b","I","m","a","g","e","W","r","a","p","p","e","r">>

\* f"<{tag}" and f"</{tag}>"
open_tag(tag) == <<"<">> \o tag
close_tag(tag) == <<"<", "/">> \o tag \o <<">">>

\* One pass of the while loop of _remove_html_tag, entered with f"<{tag}" in the
\* message: the assertion, the two finds, the break or the removal.
html_pass(message, tag, passes) ==
    IF ~(passes < MAX_CLEANING_PASSES)
    THEN [outcome |-> "AssertionError", message |-> message]
    ELSE LET start_idx == find(message, open_tag(tag), 1)
             end_idx == find(message, close_tag(tag), start_idx)
         IN  IF start_idx = 0 \/ end_idx = 0
             THEN [outcome |-> "break", message |-> message]
             ELSE [outcome |-> "removed",
                   message |-> SubSeq(message, 1, start_idx - 1)
                               \o SubSeq(message, end_idx + Len(close_tag(tag)),
                                         Len(message))]

\* the value of cleaning_passes after a pass: the loop never changes it
passes_after(passes) == passes

RECURSIVE html_loop(_, _, _)
html_loop(message, tag, passes) ==
    IF ~contains(message, open_tag(tag))
    THEN [outcome |-> "returned", message |-> message]
    ELSE LET pass == html_pass(message, tag, passes)
         IN  CASE pass.outcome = "removed" ->
                     html_loop(pass.message, tag, passes_after(passes))
               [] pass.outcome = "break" ->
                     [outcome |-> "returned", message |-> message]
               [] pass.outcome = "AssertionError" -> pass

_remove_html_tag(message, tag) == html_loop(message, tag, 0)

\* _remove_bad_html_tags: blockquote, script and, behind the guard, div
_remove_bad_html_tags(message) ==
    LET quotes == _remove_html_tag(message, BLOCKQUOTE)
        scripts == IF quotes.outcome = "returned"
                   THEN _remove_html_tag(quotes.message, SCRIPT) ELSE quotes
    IN  IF scripts.outcome = "returned" /\ contains(message, BB_IMAGE_WRAPPER)
        THEN _remove_html_tag(scripts.message, DIV)
        ELSE scripts

MaxHtmlParts == 5

QUOTE_ELEMENT == <<"<","b","l","o","c","k","q","u","o","t","e",">","q","<","/","b","l","o","c","k","q","u","o","t","e",">">>
HtmlParts == {QUOTE_ELEMENT, <<"h","i"," ">>, open_tag(BLOCKQUOTE) \o <<">">>,
              <<"<","s","c","r","i","p","t",">","x","<","/","s","c","r","i","p","t",">">>}
HtmlMessages == {join(EMPTY, ps) : ps \in SeqsUpTo(HtmlParts, MaxHtmlParts)}

\* five balanced <blockquote> elements
FIVE_QUOTES ==
    QUOTE_ELEMENT \o QUOTE_ELEMENT \o QUOTE_ELEMENT \o QUOTE_ELEMENT \o QUOTE_ELEMENT

\* _remove_html_tag(message, tag), one pass of its loop at a time.  removals
\* counts the passes that removed an element.
InitHtml ==
    /\ html_input \in HtmlMessages
    /\ html_tag \in {BLOCKQUOTE, SCRIPT}
    /\ cleaned_message = html_input
    /\ cleaning_passes = 0
    /\ removals = 0
    /\ html_pc = "loop"
    /\ IdleAdv /\ IdleConv /\ IdleSplit /\ IdleForum

HtmlPass ==
    /\ html_pc = "loop"
    /\ contains(cleaned_message, open_tag(html_tag))
    /\ LET pass == html_pass(cleaned_message, html_tag, cleaning_passes)
       IN  /\ cleaned_message' = pass.message
           /\ html_pc' = IF pass.outcome = "removed" THEN "loop"
                         ELSE IF pass.outcome = "break" THEN "returned"
                         ELSE "AssertionError"
           /\ removals' = IF pass.outcome = "removed" THEN removals + 1 ELSE removals
           /\ cleaning_passes' = IF pass.outcome = "removed"
                                 THEN passes_after(cleaning_passes)
                                 ELSE cleaning_passes
    /\ UNCHANGED <<html_input, html_tag, advVars, convVars, splitVars, forumVars>>

HtmlReturn ==
    /\ html_pc = "loop"
    /\ ~contains(cleaned_message, open_tag(html_tag))
    /\ html_pc' = "returned"
    /\ UNCHANGED <<html_input, html_tag, cleaned_message, cleaning_passes, removals,
                   advVars, convVars, splitVars, forumVars>>

NextHtml == HtmlPass \/ HtmlReturn

SpecHtml == InitHtml /\ [][NextHtml]_vars

\* C3: _remove_html_tag performs at most 4 removal passes per tag and message; a
\* message that needs more, such as five balanced <blockquote> elements, ends in
\* the fatal error and is not returned cleaned.
C3_AtMostFourPasses ==
    /\ removals <= MAX_CLEANING_PASSES
    /\ (html_input = FIVE_QUOTES /\ html_tag = BLOCKQUOTE) => html_pc # "returned"

(***************************************************************************)
(* _split_message                                                          *)
(***************************************************************************)
\* One pass of the loop over messages[1:]: the piece opens a new message or is
\* merged into the last one.
merge_piece(reconstructed, piece, target, delimiter) ==
    LET last_message_word_count ==
            IF Len(reconstructed) > 0
            THEN word_count(reconstructed[Len(reconstructed)]) ELSE 0
        current_message_word_count == word_count(piece)
    IN  IF last_message_word_count + current_message_word_count > target
        THEN Append(reconstructed, piece)
        ELSE [reconstructed EXCEPT ![Len(reconstructed)] = @ \o delimiter \o piece]

RECURSIVE merge_pieces(_, _, _, _)
merge_pieces(reconstructed, pieces, target, delimiter) ==
    IF pieces = <<>> THEN reconstructed
    ELSE merge_pieces(merge_piece(reconstructed, Head(pieces), target, delimiter),
                      Tail(pieces), target, delimiter)

_split_message(message, target, delimiter) ==
    LET messages == split(message, delimiter)
    IN  merge_pieces(<<messages[1]>>, Tail(messages), target, delimiter)

MaxSplitParts == 5
MaxSplitTarget == 3

SplitParts == {<<"a">>, <<" ">>, BR_BR}
SplitMessages == {join(EMPTY, ps) : ps \in SeqsUpTo(SplitParts, MaxSplitParts)}

\* pieces of 50, 50 and 50 words
THREE_FIFTIES == Words(50) \o BR_BR \o Words(50) \o BR_BR \o Words(50)
\* pieces of 100, 100 and 1 words
TWO_HUNDRED_AND_ONE == Words(100) \o BR_BR \o Words(100) \o BR_BR \o Words(1)

\* _split_message(original_message, target_word_count, "<br/><br/>"), one pass of
\* its loop at a time.  piece_no counts the pieces taken from messages.
InitSplit ==
    /\ \/ original_message \in SplitMessages /\ target_word_count \in 1..MaxSplitTarget
       \/ original_message = THREE_FIFTIES /\ target_word_count = 120
       \/ original_message = TWO_HUNDRED_AND_ONE /\ target_word_count = 200
    /\ piece_no = 1
    /\ reconstructed_messages = <<split(original_message, BR_BR)[1]>>
    /\ split_pc = "loop"
    /\ IdleAdv /\ IdleConv /\ IdleHtml /\ IdleForum

SplitPiece ==
    /\ split_pc = "loop"
    /\ piece_no < Len(split(original_message, BR_BR))
    /\ reconstructed_messages' =
          merge_piece(reconstructed_messages,
                      split(original_message, BR_BR)[piece_no + 1],
                      target_word_count, BR_BR)
    /\ piece_no' = piece_no + 1
    /\ UNCHANGED <<original_message, target_word_count, split_pc,
                   advVars, convVars, htmlVars, forumVars>>

SplitReturn ==
    /\ split_pc = "loop"
    /\ piece_no = Len(split(original_message, BR_BR))
    /\ split_pc' = "returned"
    /\ UNCHANGED <<original_message, target_word_count, piece_no,
                   reconstructed_messages, advVars, convVars, htmlVars, forumVars>>

NextSplit == SplitPiece \/ SplitReturn

SpecSplit == InitSplit /\ [][NextSplit]_vars

RECURSIVE SumOfWordCounts(_)
SumOfWordCounts(pieces) ==
    IF pieces = <<>> THEN 0 ELSE word_count(Head(pieces)) + SumOfWordCounts(Tail(pieces))

\* C6: a piece is merged only while the words of the current chunk plus the
\* words of the piece stay at or below the target, so no chunk built from two
\* or more pieces holds more words, summed over its pieces, than the target;
\* and pieces of 50, 50 and 50 words with target 120 give two chunks, the first
\* two pieces merged and the third alone.
C6_MergedChunkWithinTarget ==
    /\ \A c \in 1..Len(reconstructed_messages) :
          LET pieces == split(reconstructed_messages[c], BR_BR)
          IN  Len(pieces) >= 2 => SumOfWordCounts(pieces) <= target_word_count
    /\ (split_pc = "returned" /\ original_message = THREE_FIFTIES
           /\ target_word_count = 120)
          => reconstructed_messages =
                <<Words(50) \o BR_BR \o Words(50), Words(50)>>


(***************************************************************************)
(* rp_forums_writing.py: the cleaning steps of a message and of a chunk    *)
(***************************************************************************)
\* the statements of _fix_style_and_encoding_issues, in their order: a
\* message.replace(old, new) or a re.sub(pattern, new, message)
STYLE_FIXES == <<
    [kind |-> "replace", old |-> <<" ",".","."," ">>, new |-> <<".",".","."," ">>],
    [kind |-> "replace", old |-> <<" ",".",".","."," ">>, new |-> <<".",".","."," ">>],
    [kind |-> "re.sub", pattern |-> [re |-> "dots"], new |-> <<".",".","."," ">>],
    [kind |-> "replace", old |-> <<" ","."," ">>, new |-> <<"."," ">>],
    [kind |-> "replace", old |-> <<" ",","," ">>, new |-> <<","," ">>],
    [kind |-> "replace", old |-> <<" ","?"," ">>, new |-> <<"?"," ">>],
    [kind |-> "replace", old |-> <<" ","!"," ">>, new |-> <<"!"," ">>],
    [kind |-> "re.sub", pattern |-> [re |-> "hellip"], new |-> <<>>],
    [kind |-> "replace", old |-> <<"a^","?","?">>, new |-> <<"'">>],
    [kind |-> "replace", old |-> <<"a^","?","u009d">>, new |-> <<"'">>],
    [kind |-> "replace", old |-> <<"u009d">>, new |-> <<" ">>] >>

apply_fix(message, fix) ==
    IF fix.kind = "replace" THEN replace(message, fix.old, fix.new)
    ELSE re_sub(fix.pattern, fix.new, message)

RECURSIVE apply_fixes(_, _)
apply_fixes(message, fixes) ==
    IF fixes = <<>> THEN message
    ELSE apply_fixes(apply_fix(message, Head(fixes)), Tail(fixes))

_fix_style_and_encoding_issues(original) == apply_fixes(original, STYLE_FIXES)

_remove_links(original) == re_sub([re |-> "url"], EMPTY, original)

\* assert "http://" not in long_message and "https://" not in long_message
url_assertion_skipped(message) == TRUE
url_assertion(message) == ~contains(message, HTTP) /\ ~contains(message, HTTPS)

is_bad_line(line) == startswith(line, <<"R","E",":"," ">>) \/ startswith(line, <<"*","*","R","E",":"," ">>)

RECURSIVE good_lines(_)
good_lines(lines) ==
    IF lines = <<>> THEN <<>>
    ELSE IF is_bad_line(rstrip(Head(lines))) THEN good_lines(Tail(lines))
    ELSE <<rstrip(Head(lines))>> \o good_lines(Tail(lines))

_remove_trailing_whitespace_and_bad_lines(original) ==
    join(NL, good_lines(splitlines(original)))

\* ([\w\d])(\*{1,2})([\w\d]) at position i: the length of the match, or 0
match_asterisk(s, i) ==
    LET word(j) == j <= Len(s) /\ IsWord(s[j])
        star(j) == j <= Len(s) /\ s[j] = "*"
    IN  IF ~(word(i) /\ star(i + 1)) THEN 0
        ELSE IF star(i + 2) /\ word(i + 3) THEN 4
        ELSE IF word(i + 2) THEN 3
        ELSE 0

\* the while loop of _fix_markdown
RECURSIVE fix_markdown_loop(_, _)
fix_markdown_loop(s, is_opening_asterisk) ==
    LET hits == {i \in 1..Len(s) : match_asterisk(s, i) > 0}
    IN  IF hits = {} THEN s
        ELSE LET start == Least(hits)
                 end == start + match_asterisk(s, start) - 1
                 at == IF is_opening_asterisk THEN start ELSE end - 1
             IN  fix_markdown_loop(SubSeq(s, 1, at) \o <<" ">> \o SubSeq(s, at + 1, Len(s)),
                                   ~is_opening_asterisk)

_fix_markdown(original) == fix_markdown_loop(original, TRUE)

\* "{{char_" + str(idx) + "}}"
placeholder(n) == <<"{","{","c","h","a","r","_">> \o str_of(n) \o <<"}","}">>

\* for name, substitution in username_substitutions.items(): re.sub(...)
\* order lists the names as the dict holds them: order[k] has index k - 1
RECURSIVE substitute_usernames(_, _, _)
substitute_usernames(message, order, k) ==
    IF k > Len(order) THEN message
    ELSE substitute_usernames(
             re_sub([re |-> "word", name |-> order[k]], placeholder(k - 1), message),
             order, k + 1)

(***************************************************************************)
(* _not_usable_as_training_label and _seems_to_have_ooc_talk               *)
(***************************************************************************)
\* re.search(r'\b " \b', message)
has_floating_quote(s) ==
    \E i \in 2..(Len(s) - 3) :
       /\ IsWord(s[i - 1]) /\ s[i] = " " /\ s[i + 1] = "\"" /\ s[i + 2] = " "
       /\ IsWord(s[i + 3])

\* re.search(r'\S"\S', message)
has_mushed_quote(s) ==
    \E i \in 1..(Len(s) - 2) : ~IsSpace(s[i]) /\ s[i + 1] = "\"" /\ ~IsSpace(s[i + 2])

\* re.search(r'\S\(', message) or re.search(r'\)\S', message)
has_mushed_parenthesis(s) ==
    \/ \E i \in 1..(Len(s) - 1) : ~IsSpace(s[i]) /\ s[i + 1] = "("
    \/ \E i \in 1..(Len(s) - 1) : s[i] = ")" /\ ~IsSpace(s[i + 1])

\* re.search(r"\bi('m|'ll)?\b", message)
has_lowercase_i(s) ==
    \E i \in 1..Len(s) :
       /\ s[i] = "i"
       /\ word_boundary(s, i)
       /\ \/ OccursAt(s, <<"'", "m">>, i + 1) /\ word_boundary(s, i + 3)
          \/ OccursAt(s, <<"'", "l", "l">>, i + 1) /\ word_boundary(s, i + 4)
          \/ word_boundary(s, i + 1)

\* re.search(r"\[.+\]\(\S+\)", message)
has_markdown_link(s) ==
    \E i \in 1..Len(s) :
       /\ s[i] = "["
       /\ \E j \in (i + 2)..(Len(s) - 1) :
             /\ s[j] = "]" /\ s[j + 1] = "("
             /\ \A c \in (i + 1)..(j - 1) : s[c] # "\n"
             /\ \E k \in (j + 3)..Len(s) :
                   /\ s[k] = ")"
                   /\ \A c \in (j + 2)..(k - 1) : ~IsSpace(s[c])

_not_usable_as_training_label(message) ==
    \/ has_floating_quote(message)
    \/ has_mushed_quote(message)
    \/ has_mushed_parenthesis(message)
    \/ has_lowercase_i(message)
    \/ has_markdown_link(message)

\* _OOC_REGEX = ^\((OOC: ?)?.+\)$ with re.MULTILINE: a line that opens with "(",
\* perhaps "OOC:" and a space, then at least one character, and closes with ")"
ooc_line(line) ==
    /\ Len(line) >= 1 /\ line[1] = "("
    /\ \E prefix \in {EMPTY, <<"O","O","C",":">>, <<"O","O","C",":"," ">>} :
          /\ OccursAt(line, prefix, 2)
          /\ Len(line) >= 1 + Len(prefix) + 1 + 1
          /\ line[Len(line)] = ")"

_seems_to_have_ooc_talk(message) ==
    \E k \in 1..Len(split(message, NL)) : ooc_line(split(message, NL)[k])

\* the elif of the label assignment: OOC talk the previous turn did not have
ooc_whatever_came_before(message, previous) == _seems_to_have_ooc_talk(message)
unprompted_ooc(message, previous) ==
    _seems_to_have_ooc_talk(message) /\ ~_seems_to_have_ooc_talk(previous)

\* turn_kind: MODEL unless one of the two conditions makes it USER
turn_kind(message, previous) ==
    IF _not_usable_as_training_label(message) THEN "USER"
    ELSE IF unprompted_ooc(message, previous) THEN "USER"
    ELSE "MODEL"

\* the body of the inner loop after markdownify: md is what markdownify returned
clean_markdown(md) ==
    re_sub([re |-> "newlines", n |-> 2], <<"\n", "\n">>,
           _fix_markdown(_remove_trailing_whitespace_and_bad_lines(md)))


(***************************************************************************)
(* RpForumsWritingTask.__iter__, for one thread of the thread source.      *)
(***************************************************************************)
\* random.randint(200, 600)
TARGET_WORD_COUNT_MIN == 200
TARGET_WORD_COUNT_MAX == 600

META_MARKERS == {<<"o","o","c">>, <<"o",".","o",".","c">>, <<"c","h","a","r","a","c","t","e","r"," ","s","h","e","e","t">>,
                 <<"c","h","a","r","a","c","t","e","r"," ","p","r","o","f","i","l","e">>,
                 <<"c","h","a","r","a","c","t","e","r"," ","l","i","s","t">>,
                 <<"c","h","a","r","a","c","t","e","r"," ","r","o","s","t","e","r">>}

\* any([x in thread.thread_name.lower() for x in [...]])
is_meta_thread(name) == \E x \in META_MARKERS : contains(lower(name), x)

\* expansions of _BASE_SYSTEM_PROMPTS and of the content type prompts, as
\* generate_prompts gives them
SYSTEM_PROMPTS == {
    <<"E","n","t","e","r"," ","s","t","o","r","y","w","r","i","t","i","n","g"," ","m","o","d","e","."," ","{","{","c","o","n","t","e","n","t","_","t","y","p","e","_","s","t","r","}","}","."," ","{","{","r","e","s","p","o","n","s","e","_","l","e","n","g","t","h","_","s","t","r","}","}",".">>,
    <<"W","r","i","t","e"," ","t","h","e"," ","n","e","x","t"," ","r","e","p","l","y"," ","i","n"," ","a"," ","f","i","c","t","i","o","n","a","l"," ","R","P"," ","c","h","a","t","."," ","{","{","c","o","n","t","e","n","t","_","t","y","p","e","_","s","t","r","}","}","."," ","{","{","r","e","s","p","o","n","s","e","_","l","e","n","g","t","h","_","s","t","r","}","}",".">> }
CONTENT_TYPE_STR == <<"{","{","c","o","n","t","e","n","t","_","t","y","p","e","_","s","t","r","}","}">>
SFW_PROMPTS == {<<"G","e","n","e","r","a","t","i","o","n","s"," ","m","u","s","t"," ","b","e"," ","S","F","W">>}
NSFW_PROMPTS == {<<"Y","o","u","r"," ","r","e","p","l","y"," ","m","u","s","t"," ","b","e"," ","N","S","F","W">>}
MIXED_SFW_NSFW_PROMPTS == {<<"Y","o","u","r"," ","w","r","i","t","i","n","g"," ","c","a","n"," ","i","n","c","l","u","d","e"," ","a","d","u","l","t"," ","t","h","e","m","e","s">>}
CONTENT_TYPE_TO_PROMPTS ==
    [t \in {"RP", "ERP", "MIXED"} |->
        CASE t = "RP" -> SFW_PROMPTS
          [] t = "ERP" -> NSFW_PROMPTS
          [] t = "MIXED" -> MIXED_SFW_NSFW_PROMPTS]

\* f"rp-{thread.source_file}-{thread.thread_name}"
SOURCE_FILE == <<"r","p",".","j","s","o","n">>
forum_identifier(name) == <<"r", "p", "-">> \o SOURCE_FILE \o <<"-">> \o name

\* set([message.author for message in thread.messages]) enumerated: the set
\* gives its names in an order of its own, any order
Range(f) == {f[x] : x \in DOMAIN f}
Orders(names) ==
    {order \in [1..Cardinality(names) -> names] : Range(order) = names}

\* the three steps of a message before the assertion
cleaned_body(body) ==
    LET tags == _remove_bad_html_tags(_fix_style_and_encoding_issues(body))
    IN  [outcome |-> tags.outcome, message |-> _remove_links(tags.message)]

MaxMessages == 3

ThreadNames == {<<"D","r","a","g","o","n">>, <<"O","O","C"," ","c","h","a","t">>, <<"C","h","a","r","a","c","t","e","r"," ","S","h","e","e","t"," ","T","h","r","e","a","d">>}
AuthorNames == <<<<"B","o","b">>, <<"A","l","!">>>>

\* the authors of a thread of n messages in which k authors post in turn
PostingInTurn(n, k) == [i \in 1..n |-> AuthorNames[((i - 1) % k) + 1]]

\* message bodies: plain text with mis-encoded punctuation, a link, a bare link
\* prefix, a link prefix that a removal puts together, a quote, two paragraphs
Bodies == {
    <<"I","t","a^","?","?","s"," ","l","a","t","e"," ","hellip"," ","o","k">>,
    <<"s","e","e"," ","h","t","t","p",":","/","/","x",".","y","/","z"," ","n","o","w">>,
    <<"m","o","r","e"," ","a","t"," ","h","t","t","p",":","/","/">>,
    <<"h","h","t","t","p",":","/","/","a"," ","t","t","p",":","/","/","b">>,
    <<"<","b","l","o","c","k","q","u","o","t","e",">","q","<","/","b","l","o","c","k","q","u","o","t","e",">","H","i"," ",".","."," ","y","o","u">>,
    <<"a","<","b","r","/",">","<","b","r","/",">","b">> }

\* texts that markdownify returns for a chunk
OOC_SKIP == <<"(","O","O","C",":"," ","l","e","t","'","s"," ","s","k","i","p"," ","a","h","e","a","d",")">>
PLAIN_TEXT == <<"B","o","b"," ","m","e","t"," ","B","o","b","b","y"," ","a","n","d"," ","A","l","!"," ","o","k">>
UNUSABLE_OOC == <<"(","i","'","m"," ","b","a","c","k",")">>
MESSY_TEXT == <<"R","E",":"," ","A","l","\n","*","*","A","l","*","*","s","a","i","d","*","h","i","*"," "," ","\n","\n","\n","(","o","k",")">>
MarkdownTexts == {OOC_SKIP, PLAIN_TEXT, UNUSABLE_OOC, MESSY_TEXT}

\* The cleaning steps are functions of their text alone, so their values on the
\* texts above are tabulated, each evaluated once: the cleaned bodies, the cleaned
\* markdown, the chunk texts after the substitutions, and the kinds of the turns.
ThreadAuthors ==
    {PostingInTurn(n, k) : n \in 0..MaxMessages, k \in 1..Len(AuthorNames)}
UsernameOrders == UNION {Orders(Range(a)) : a \in ThreadAuthors}
SystemPromptTexts ==
    {replace(system_prompt, CONTENT_TYPE_STR, content_type_prompt) :
        system_prompt \in SYSTEM_PROMPTS,
        content_type_prompt \in UNION Range(CONTENT_TYPE_TO_PROMPTS)}

CleanedBody == [body \in Bodies |-> cleaned_body(body)]
CleanMarkdown == [md \in MarkdownTexts |-> clean_markdown(md)]
ChunkText ==
    [md \in MarkdownTexts, order \in UsernameOrders |->
        substitute_usernames(CleanMarkdown[md], order, 1)]
ChunkTexts == {ChunkText[md, order] : md \in MarkdownTexts, order \in UsernameOrders}
TurnKindOf ==
    [message \in ChunkTexts, previous \in SystemPromptTexts \cup ChunkTexts |->
        turn_kind(message, previous)]

InitForum ==
    /\ thread_name \in ThreadNames
    /\ authors \in ThreadAuthors
    /\ username_order = <<>>
    /\ forum_turns = <<>>
    /\ msg_no = 0
    /\ long_message = EMPTY
    /\ chunks = <<>>
    /\ markdown = EMPTY
    /\ episode = <<>>
    /\ forum_pc = "thread"
    /\ IdleAdv /\ IdleConv /\ IdleHtml /\ IdleSplit

\* continue: the thread name holds a meta marker
ForumSkipMeta ==
    /\ forum_pc = "thread"
    /\ is_meta_thread(thread_name)
    /\ forum_pc' = "skipped"
    /\ UNCHANGED <<thread_name, authors, username_order, forum_turns, msg_no,
                   long_message, chunks, markdown, episode,
                   advVars, convVars, htmlVars, splitVars>>

\* continue: len(thread.messages) < 2
ForumSkipShort ==
    /\ forum_pc = "thread"
    /\ ~is_meta_thread(thread_name)
    /\ Len(authors) < 2
    /\ forum_pc' = "skipped"
    /\ UNCHANGED <<thread_name, authors, username_order, forum_turns, msg_no,
                   long_message, chunks, markdown, episode,
                   advVars, convVars, htmlVars, splitVars>>

\* the username substitutions and the system turn
ForumStart ==
    /\ forum_pc = "thread"
    /\ ~is_meta_thread(thread_name)
    /\ Len(authors) >= 2
    /\ username_order' \in Orders(Range(authors))
    /\ \E system_prompt \in SYSTEM_PROMPTS, content_type \in {"RP", "ERP", "MIXED"} :
          \E content_type_prompt \in CONTENT_TYPE_TO_PROMPTS[content_type] :
             forum_turns' = <<Turn(replace(system_prompt, CONTENT_TYPE_STR,
                                            content_type_prompt), "SYSTEM")>>
    /\ forum_pc' = "messages"
    /\ UNCHANGED <<thread_name, authors, msg_no, long_message, chunks, markdown,
                   episode, advVars, convVars, htmlVars, splitVars>>

\* for message in thread.messages: the message is cleaned, the assertion is made
\* and the message is split
ForumMessage(body) ==
    /\ forum_pc = "messages"
    /\ msg_no < Len(authors)
    /\ msg_no' = msg_no + 1
    /\ LET cleaned == CleanedBody[body]
       IN  /\ long_message' = cleaned.message
           /\ IF cleaned.outcome = "AssertionError" \/ ~url_assertion(cleaned.message)
              THEN forum_pc' = "AssertionError" /\ chunks' = <<>>
              ELSE /\ forum_pc' = "chunks"
                   /\ \E target \in {TARGET_WORD_COUNT_MIN, TARGET_WORD_COUNT_MAX} :
                         chunks' = _split_message(cleaned.message, target, BR_BR)
    /\ UNCHANGED <<thread_name, authors, username_order, forum_turns, markdown,
                   episode, advVars, convVars, htmlVars, splitVars>>

\* for message in _split_message(...): md is what markdownify gives for the
\* chunk; markdown keeps cleaned_message as it is before the substitutions
ForumChunk(md) ==
    /\ forum_pc = "chunks"
    /\ chunks # <<>>
    /\ markdown' = CleanMarkdown[md]
    /\ LET cleaned == ChunkText[md, username_order]
           previous == forum_turns[Len(forum_turns)].utterance
       IN  forum_turns' = Append(forum_turns, Turn(cleaned, TurnKindOf[cleaned, previous]))
    /\ chunks' = Tail(chunks)
    /\ forum_pc' = IF Tail(chunks) = <<>> THEN "messages" ELSE "chunks"
    /\ UNCHANGED <<thread_name, authors, username_order, msg_no, long_message,
                   episode, advVars, convVars, htmlVars, splitVars>>

\* yield Episode(turns=turns, identifier=...)
ForumYield ==
    /\ forum_pc = "messages"
    /\ msg_no = Len(authors)
    /\ episode' = <<Episode(forum_turns, forum_identifier(thread_name))>>
    /\ forum_pc' = "yielded"
    /\ UNCHANGED <<thread_name, authors, username_order, forum_turns, msg_no,
                   long_message, chunks, markdown, advVars, convVars, htmlVars,
                   splitVars>>

NextForum ==
    \/ ForumSkipMeta
    \/ ForumSkipShort
    \/ ForumStart
    \/ \E body \in Bodies : ForumMessage(body)
    \/ \E md \in MarkdownTexts : ForumChunk(md)
    \/ ForumYield

SpecForum == InitForum /\ [][NextForum]_vars

(***************************************************************************)
(* Properties of the forum pipeline.                                       *)
(***************************************************************************)
has_url_prefix(text) == contains(text, HTTP) \/ contains(text, HTTPS)

\* C2: the text handed to chunking, and every chunk made of it, holds neither
\* "http://" nor "https://"; a message in which _remove_links leaves either one
\* behind stops the run with an AssertionError before a chunk or a turn is made of
\* it, and no episode is yielded.
C2_NoUrlReachesChunking ==
    [][/\ forum_pc' = "chunks" =>
             /\ ~has_url_prefix(long_message')
             /\ \A k \in 1..Len(chunks') : ~has_url_prefix(chunks'[k])
       /\ has_url_prefix(long_message') =>
             /\ forum_pc' = "AssertionError"
             /\ chunks' = <<>>
             /\ forum_turns' = forum_turns
             /\ episode' = <<>>
       /\ forum_pc = "AssertionError" => forum_pc' = "AssertionError" /\ episode' = <<>>]_vars

\* a removal put "http://" together, after an earlier message gave its turns
C2_Witness ==
    /\ forum_pc = "AssertionError"
    /\ long_message = HTTP \o <<"b">>
    /\ Len(forum_turns) > 1
    /\ episode = <<>>

\* the label the claim gives turn i of a list of turns (i > 1)
label_of(turn_list, i) ==
    LET message == turn_list[i].utterance
        previous == turn_list[i - 1].utterance
    IN  IF \/ _not_usable_as_training_label(message)
           \/ _seems_to_have_ooc_talk(message) /\ ~_seems_to_have_ooc_talk(previous)
        THEN "USER" ELSE "MODEL"

\* C4: every chunk's turn is MODEL unless the chunk matches an unusable-signal
\* pattern, or reads as OOC while the turn before it does not, and then it is
\* USER; "(OOC: let's skip ahead)" is USER after a turn that does not read as
\* OOC and MODEL after one that does.
C4_LabelAssignment ==
    \A i \in 2..Len(forum_turns) :
       /\ forum_turns[i].kind = label_of(forum_turns, i)
       /\ forum_turns[i].utterance = OOC_SKIP =>
             forum_turns[i].kind =
                IF _seems_to_have_ooc_talk(forum_turns[i - 1].utterance)
                THEN "MODEL" ELSE "USER"

\* the three cases: OOC after the system prompt, OOC after OOC, an unusable chunk
C4_Witness ==
    /\ Len(forum_turns) = 4
    /\ forum_turns[2] = Turn(OOC_SKIP, "USER")
    /\ forum_turns[3] = Turn(OOC_SKIP, "MODEL")
    /\ forum_turns[4].kind = "USER"
    /\ _not_usable_as_training_label(forum_turns[4].utterance)

\* C5: the authors of a thread have distinct placeholders, and no author's name
\* remains as a substring of an utterance of a yielded episode's non-system turns.
C5_NoAuthorNameRemains ==
    /\ \A j, k \in 1..Len(username_order) :
          j # k => placeholder(j - 1) # placeholder(k - 1)
    /\ \A e \in 1..Len(episode) :
          \A i \in 2..Len(episode[e].turns) :
             \A k \in 1..Len(username_order) :
                ~contains(episode[e].turns[i].utterance, username_order[k])

\* C10: a turn that has OOC talk is MODEL only if the turn before it is a USER
\* turn that has OOC talk too.
C10_ModelOocOnlyAfterUserOoc ==
    \A i \in 2..Len(forum_turns) :
       (forum_turns[i].kind = "MODEL" /\ _seems_to_have_ooc_talk(forum_turns[i].utterance))
          => /\ forum_turns[i - 1].kind = "USER"
             /\ _seems_to_have_ooc_talk(forum_turns[i - 1].utterance)

====
